---- MODULE Spec2Model ----
(***************************************************************************)
(* Model of chapisha's transactional archive patcher                       *)
(* (chapisha/helpers/updatezipfile.py, class UpdateZipFile), of            *)
(* CreateWork (chapisha/create/create.py): its setters and build(), of the *)
(* page generators (chapisha/helpers/pages.py), of get_text_rows           *)
(* (chapisha/helpers/formats.py) and of ReviewWork.replace_image           *)
(* (chapisha/review/review.py).                                            *)
(*                                                                         *)
(* An archive is a sequence of entries [name, data]; a payload is a        *)
(* sequence of byte tokens.  An archive path is a record [k, d]: k is the  *)
(* text of the path up to its ordinal and d the digits of the ordinal, so  *)
(* EPUB/text/ch002.xhtml is [k |-> "EPUB/text/ch", d |-> <<0, 0, 2>>].     *)
(***************************************************************************)
EXTENDS Integers, Sequences, FiniteSets, TLC

VARIABLES
    pc,         \* position of the caller: init, open, rebuild, loop, finally, done
    w,          \* the UpdateZipFile object
    archive,    \* the file at self.filename
    tempfiles,  \* every tempfile.TemporaryFile() created so far
    zip_read,   \* infolist of the archive opened for reading by _rebuild_zip
    new_zip,    \* entries written so far to <tempdir>/new.zip
    item,       \* index of the next entry of zip_read.infolist()
    exc,        \* "none", or the exception __exit__ is propagating
    failed,     \* "none", or the step of __exit__ that raised
    ops,        \* history: every writestr / write / remove_file call and its outcome
    orig,       \* history: the archive when __enter__ ran
    at_exit,    \* history: the archive and the staged paths when __exit__ started
    at_rebuild, \* history: the archive when _rebuild_zip started
    rebuilds,   \* history: number of _rebuild_zip calls
    work        \* the CreateWork object and the locals of the function that runs

vars == <<pc, w, archive, tempfiles, zip_read, new_zip, item, exc, failed,
          ops, orig, at_exit, at_rebuild, rebuilds, work>>

----------------------------------------------------------------------------
(* Bounds *)

\* calls of writestr / write / remove_file on one object
MaxOps == 3
\* of these, calls made before __enter__
MaxBefore == 1

----------------------------------------------------------------------------
(* Paths, payloads, entries *)

Path(k) == [k |-> k, d |-> <<>>]

CONTENT_OPF == Path("EPUB/content.opf")
TOC_NCX == Path("EPUB/toc.ncx")
TOC_XHTML == Path("EPUB/toc.xhtml")

Names == {CONTENT_OPF, TOC_NCX, TOC_XHTML}

\* the payload of the i-th call: every call writes bytes of its own
Data(i) == <<i>>

Entry(name, data) == [name |-> name, data |-> data]

\* the archive as the external converter leaves it
PandocArchive == <<Entry(CONTENT_OPF, <<0>>), Entry(TOC_NCX, <<0>>)>>

\* a key of self._replace: remove_file takes a str or a pathlib.Path and
\* uses it as the key unchanged; Path("x") and "x" are different keys
StrKey(name) == [t |-> "str", n |-> name]
PathKey(name) == [t |-> "Path", n |-> name]
KeyTypes == {"str", "Path"}

DeleteMarker == [del |-> TRUE, tmp |-> 0]
TempRef(i) == [del |-> FALSE, tmp |-> i]

EmptyMap == [x \in {} |-> DeleteMarker]
Put(f, k, v) == [x \in (DOMAIN f) \cup {k} |-> IF x = k THEN v ELSE f[x]]
Del(f, k) == [x \in (DOMAIN f) \ {k} |-> f[x]]

Bundle(zw, ar, tf, raised) == [w |-> zw, archive |-> ar, tempfiles |-> tf, raised |-> raised]

----------------------------------------------------------------------------
(* zipfile.ZipFile in mode "a" *)

namelist(zw) == {zw.filelist[i].name : i \in 1..Len(zw.filelist)}

\* ZipFile.read(name): the last entry of that name
RECURSIVE LastIndex(_, _, _)
LastIndex(s, name, i) ==
    IF i = 0 THEN 0
    ELSE IF s[i].name = name THEN i
    ELSE LastIndex(s, name, i - 1)

HasName(s, name) == LastIndex(s, name, Len(s)) # 0
ReadName(s, name) == s[LastIndex(s, name, Len(s))].data

\* the archive can be opened as a zip file: its central directory has not
\* been overwritten by appended entries, and it is not a truncated copy
Readable(ar) == ar.tail = <<>> /\ ~ar.partial

\* ZipFile.writestr / ZipFile.write: append the entry after the last entry
\* (over the central directory); the bytes reach the file when the I/O
\* buffer overflows (flush) or at close
ZipFile_writestr(S, name, data, flush) ==
    IF ~S.w.fp THEN Bundle(S.w, S.archive, S.tempfiles, "ValueError")
    ELSE LET e == Entry(name, data)
             zw == [S.w EXCEPT !.filelist = Append(@, e), !.didModify = TRUE,
                               !.unflushed = IF flush THEN <<>> ELSE Append(@, e)]
             ar == IF flush
                   THEN [S.archive EXCEPT !.tail = @ \o S.w.unflushed \o <<e>>]
                   ELSE S.archive
         IN Bundle(zw, ar, S.tempfiles, "none")

\* ZipFile.close
ZipFile_close(S, fails) ==
    IF ~S.w.fp THEN Bundle(S.w, S.archive, S.tempfiles, "none")
    ELSE LET zw == [S.w EXCEPT !.fp = FALSE, !.unflushed = <<>>]
         IN IF ~S.w.didModify THEN Bundle(zw, S.archive, S.tempfiles, "none")
            ELSE IF fails
            THEN Bundle(zw, [S.archive EXCEPT !.tail = @ \o S.w.unflushed],
                        S.tempfiles, "OSError")
            ELSE Bundle(zw, [dir |-> S.w.filelist, tail |-> <<>>, partial |-> FALSE],
                        S.tempfiles, "none")

----------------------------------------------------------------------------
(* UpdateZipFile *)

UpdateZipFile_init(ar) ==
    [allow_updates |-> FALSE, replace |-> EmptyMap, fp |-> TRUE,
     filelist |-> ar.dir, didModify |-> FALSE, unflushed |-> <<>>]

\* temp_file = self._replace[name] = self._replace.get(name, TemporaryFile())
\* the default argument is evaluated on every call
StageTempFile(S, name) ==
    LET tf == Append(S.tempfiles, [data |-> <<>>, closed |-> 0])
        key == StrKey(name)
        ref == IF key \in DOMAIN S.w.replace THEN S.w.replace[key] ELSE TempRef(Len(tf))
    IN [S EXCEPT !.tempfiles = tf, !.w.replace = Put(@, key, ref)]

\* temp_file.write(data)
TempWrite(S, ref, data) ==
    IF ref.del THEN [S EXCEPT !.raised = "AttributeError"]
    ELSE IF S.tempfiles[ref.tmp].closed > 0 THEN [S EXCEPT !.raised = "ValueError"]
    ELSE [S EXCEPT !.tempfiles[ref.tmp].data = @ \o data]

\* variant: the overlay test is missing, every write is handed to ZipFile
writestr_unstaged(S, name, data, flush) == ZipFile_writestr(S, name, data, flush)

writestr(S, name, data, flush) ==
    IF S.w.allow_updates /\ name \in namelist(S.w)
    THEN LET T == StageTempFile(S, name)
         IN TempWrite(T, T.w.replace[StrKey(name)], data)
    ELSE ZipFile_writestr(S, name, data, flush)

\* write(filename, arcname): data is the content of filename; exists is
\* FALSE when filename cannot be opened
write(S, name, data, exists, flush) ==
    IF S.w.allow_updates /\ name \in namelist(S.w)
    THEN LET T == StageTempFile(S, name)
         IN IF ~exists THEN [T EXCEPT !.raised = "FileNotFoundError"]
            ELSE TempWrite(T, T.w.replace[StrKey(name)], data)
    ELSE IF ~exists THEN [S EXCEPT !.raised = "FileNotFoundError"]
    ELSE ZipFile_writestr(S, name, data, flush)

remove_file(S, key) == [S EXCEPT !.w.replace = Put(@, key, DeleteMarker)]

enter(S) == [S EXCEPT !.w.allow_updates = TRUE]

\* _close_all_temp_files
close_all_temp_files(S) ==
    LET open == {S.w.replace[k].tmp : k \in {x \in DOMAIN S.w.replace : ~S.w.replace[x].del}}
    IN [S EXCEPT !.tempfiles = [i \in 1..Len(S.tempfiles) |->
                     IF i \in open THEN [S.tempfiles[i] EXCEPT !.closed = @ + 1]
                     ELSE S.tempfiles[i]]]

\* variant: the rebuild runs whether or not anything is staged
NeedsRebuild_always(zw) == Cardinality(DOMAIN zw.replace) >= 0

\* if len(self._replace) > 0
NeedsRebuild(zw) == Cardinality(DOMAIN zw.replace) > 0

----------------------------------------------------------------------------
(* CreateWork.build: paths and documents *)

\* chapters in the archive the external converter writes
MaxChapters == 3
\* chapters of a long book, numbered 1 .. MaxContiguous
MaxContiguous == 10
\* entries of a spine handed to the generators of pages.py
MaxSpine == 3
\* calls made on one CreateWork object
MaxCalls == 3
\* words of a text given to get_text_rows
MaxWords == 3
\* passes of the fitting loop of get_text_rows that are followed
MaxRows == 6

\* a document: t is its template / kind, id the source it was made from,
\* title its <title> (0: none), words the tokens of its <section>, refs the
\* items it lists
Doc(t, id, title, words, refs) ==
    [t |-> t, id |-> id, title |-> title, words |-> words, refs |-> refs]
File(t) == <<Doc(t, 0, 0, 0, <<>>)>>

MIMETYPE == Path("mimetype")
CONTAINER_XML == Path("META-INF/container.xml")
NAV_XHTML == Path("EPUB/nav.xhtml")
TITLE_PAGE_XHTML == Path("EPUB/text/title_page.xhtml")
STYLESHEET1_CSS == Path("EPUB/styles/stylesheet1.css")
CORE_CSS == Path("EPUB/css/core.css")
LOGO_SVG == Path("EPUB/images/logo.svg")
ONIX_XML == Path("EPUB/onix.xml")
FONT == Path("EPUB/fonts/font.woff2")
TITLEPAGE_XHTML == Path("EPUB/text/titlepage.xhtml")
COLOPHON_XHTML == Path("EPUB/text/colophon.xhtml")
COVER_PNG == Path("EPUB/images/cover.png")
COVER_JPG == Path("EPUB/images/cover.jpg")
DEDICATION_XHTML == Path("EPUB/text/dedication.xhtml")
MEDIA_IMAGE == Path("EPUB/media/image1.png")
IMAGES_IMAGE == Path("EPUB/images/image1.png")

\* EPUB/text/ch<digits>.xhtml, as the converter names a fragment
FragmentPath(d) == [k |-> "EPUB/text/ch", d |-> d]
\* F"EPUB/text/chapter-{...}.xhtml"
ChapterPath(d) == [k |-> "EPUB/text/chapter-", d |-> d]

RECURSIVE Digits(_)
Digits(n) == IF n < 10 THEN <<n>> ELSE Append(Digits(n \div 10), n % 10)

\* "ch%03d"
Pad3(n) == <<(n \div 100) % 10, (n \div 10) % 10, n % 10>>

\* source ordinals the converter may use
Ordinals == {1, 2, 5, 9, 10, 12}

TitleOf(o) == 100 + o
\* the converter puts a chapter's heading inside its <section>: the text of
\* the section of fragment o is a heading of o words and 50 words of body
BodyWords(o) == 50
HeadingWords(o) == o
\* len(words.replace("\n", " ").replace("  ", " ").strip().split())
WordsOf(o) == BodyWords(o) + HeadingWords(o)
Fragment(o, titled) == <<Doc("pandoc", o, IF titled THEN TitleOf(o) ELSE 0, WordsOf(o), <<>>)>>

\* f.startswith("EPUB/text/ch")
IsChapter(n) == n.k \in {"EPUB/text/ch", "EPUB/text/chapter-"}
\* f.startswith("EPUB/images/")
IsImage(n) == n \in {LOGO_SVG, COVER_PNG, COVER_JPG, IMAGES_IMAGE}
\* f.startswith("EPUB/media/")
IsMedia(n) == n = MEDIA_IMAGE
\* img.replace("/media/", "/images/")
MediaToImages(n) == IF n = MEDIA_IMAGE THEN IMAGES_IMAGE ELSE n

\* order of two digit strings followed by ".xhtml": "." sorts before a digit
RECURSIVE DigitsLess(_, _)
DigitsLess(x, y) ==
    IF x = <<>> THEN y # <<>>
    ELSE IF y = <<>> THEN FALSE
    ELSE IF Head(x) # Head(y) THEN Head(x) < Head(y)
    ELSE DigitsLess(Tail(x), Tail(y))

\* str order of two chapter paths: a digit sorts before the "a" of "chapter-"
StrLess(a, b) ==
    IF a.k = b.k THEN DigitsLess(a.d, b.d)
    ELSE a.k = "EPUB/text/ch"

\* list.sort()
RECURSIVE Sorted(_)
Sorted(names) ==
    IF names = {} THEN <<>>
    ELSE LET m == CHOOSE x \in names : \A y \in names \ {x} : StrLess(x, y)
         IN <<m>> \o Sorted(names \ {m})

\* the names of filelist in list order, without repetition of the order
NameSeq(fl) == [i \in 1..Len(fl) |-> fl[i].name]

\* chapter.split('.')[0][-1]
LastChar(n) == n.d[Len(n.d)]
FileAs(chapter) == ChapterPath(<<LastChar(chapter)>>)

\* variant: only the body text of the section is kept, not its heading
restructure_chapter_body_only(xml) == [xml EXCEPT !.t = "chapter", !.words = BodyWords(xml.id)]

\* pages.restructure_chapter: the fragment's title and section contents in
\* the chapter template
restructure_chapter(xml) == [xml EXCEPT !.t = "chapter"]

\* the content tags of models/matter.py
FrontMatter == {"cover", "titlepage", "imprint", "dedication", "epigraph",
                "acknowledgements", "foreword", "preface", "introduction", "toc"}
BodyMatter == {"prologue", "epilogue"}
BackMatter == {"afterword", "illustrations", "endnotes", "colophon", "copyright"}
MatterPartition == {"frontmatter", "bodymatter", "backmatter"}

\* Matter(partition=..., content=..., title=...); content "none" and title 0
\* stand for None
Matter(partition, content, title) == [partition |-> partition, content |-> content, title |-> title]
\* variant: a chapter needs no title
MatterValid_untitled(m) ==
    /\ m.content = "none" => m.partition = "bodymatter"
    /\ m.partition = "frontmatter" => m.content \in FrontMatter
    /\ m.partition = "backmatter" => m.content \in BackMatter
    /\ (m.partition = "bodymatter" /\ m.content # "none") => m.content \in BodyMatter

\* Matter.assure_matter_is_related: TRUE when no assert fails
MatterValid(m) ==
    /\ m.content = "none" => (m.partition = "bodymatter" /\ m.title # 0)
    /\ m.partition = "frontmatter" => m.content \in FrontMatter
    /\ m.partition = "backmatter" => m.content \in BackMatter
    /\ (m.partition = "bodymatter" /\ m.content # "none") => m.content \in BodyMatter

\* variant: chapters numbered by their position in the spine
ChapterNo_position(spine, i) == i

\* the value of the counter `chapter` when `for matter in spine` reaches
\* spine[i]: one more than the body entries before it
ChapterNo(spine, i) ==
    1 + Cardinality({j \in 1..(i - 1) : spine[j].partition = "bodymatter"})

\* create_content_opf, CHAPTERS: the <item> lines of chapter_manifest_xml;
\* spine_xml gets an <itemref> of the same id in the same branch
RECURSIVE chapter_manifest_xml(_, _)
chapter_manifest_xml(spine, i) ==
    IF i > Len(spine) THEN <<>>
    ELSE (IF spine[i].content = "dedication"
          THEN <<[href |-> DEDICATION_XHTML, id |-> DEDICATION_XHTML]>> ELSE <<>>)
         \o (IF spine[i].partition = "bodymatter"
             THEN <<[href |-> ChapterPath(Digits(ChapterNo(spine, i))),
                     id |-> ChapterPath(Digits(ChapterNo(spine, i)))]>>
             ELSE <<>>)
         \o chapter_manifest_xml(spine, i + 1)

spine_xml(manifest) == [k \in 1..Len(manifest) |-> [idref |-> manifest[k].id]]

\* "cover." in img
HasCoverInName(img) == img \in {COVER_PNG, COVER_JPG}

\* create_content_opf, IMAGES: the <item> lines of image_manifest_xml
image_manifest_xml(image_manifest) ==
    [i \in 1..Len(image_manifest) |->
        IF HasCoverInName(image_manifest[i])
        THEN [href |-> image_manifest[i], id |-> image_manifest[i],
              properties |-> "cover-image"]
        ELSE [href |-> image_manifest[i], id |-> image_manifest[i], properties |-> "none"]]

create_content_opf(metadata, image_manifest, spine) ==
    <<[t |-> "content.opf", id |-> 0, title |-> 0, words |-> metadata.word_count,
       images |-> image_manifest_xml(image_manifest),
       refs |-> chapter_manifest_xml(spine, 1),
       itemrefs |-> spine_xml(chapter_manifest_xml(spine, 1))]>>

TITLE_PAGE_TITLE == 1
COLOPHON_TITLE == 2

\* create_toc_ncx, NAVMAP: the navPoints of the loop; navcount is i + 1
\* when the loop reaches spine[i]
RECURSIVE navmap_xml(_, _)
navmap_xml(spine, i) ==
    IF i > Len(spine) THEN <<>>
    ELSE (IF spine[i].content = "dedication"
          THEN <<[playOrder |-> i + 1, title |-> spine[i].title, href |-> DEDICATION_XHTML]>>
          ELSE <<>>)
         \o (IF spine[i].partition = "bodymatter"
             THEN <<[playOrder |-> i + 1, title |-> spine[i].title,
                     href |-> ChapterPath(Digits(ChapterNo(spine, i)))]>>
             ELSE <<>>)
         \o navmap_xml(spine, i + 1)

\* variant: only the entries of the spine, without the title page and colophon
create_toc_ncx_spine_only(metadata, spine) ==
    <<Doc("toc.ncx", 0, 0, 0, navmap_xml(spine, 1))>>

create_toc_ncx(metadata, spine) ==
    <<Doc("toc.ncx", 0, 0, 0,
          <<[playOrder |-> 1, title |-> TITLE_PAGE_TITLE, href |-> TITLEPAGE_XHTML]>>
              \o navmap_xml(spine, 1)
              \o <<[playOrder |-> Len(spine) + 2, title |-> COLOPHON_TITLE,
                    href |-> COLOPHON_XHTML]>>)>>

\* create_toc_xhtml, Table of Contents: the <li> entries
RECURSIVE toc_xhtml(_, _)
toc_xhtml(spine, i) ==
    IF i > Len(spine) THEN <<>>
    ELSE (IF spine[i].content = "dedication"
          THEN <<[href |-> DEDICATION_XHTML, title |-> spine[i].title]>> ELSE <<>>)
         \o (IF spine[i].partition = "bodymatter"
             THEN <<[href |-> ChapterPath(Digits(ChapterNo(spine, i))), title |-> spine[i].title]>>
             ELSE <<>>)
         \o toc_xhtml(spine, i + 1)

create_toc_xhtml(metadata, spine) ==
    <<Doc("toc.xhtml", 0, 0, 0, toc_xhtml(spine, 1))>>

DEDICATION_TITLE == 3

\* the sets of chapter ordinals build() is run on: the converter's fragments
\* (any few of Ordinals, or a long book), or chapters already under their
\* canonical names chapter-1 .. chapter-n
ChapterSets(canonical) ==
    {1..n : n \in (1..MaxChapters) \cup {MaxContiguous}}
    \cup (IF canonical THEN {}
          ELSE {s \in SUBSET Ordinals : Cardinality(s) \in 1..MaxChapters})

\* the name of chapter o in the archive build() starts from
SourcePath(o, canonical) ==
    IF canonical THEN ChapterPath(Digits(o)) ELSE FragmentPath(Pad3(o))

\* what pypandoc.convert_file leaves at epub_path
PandocEpub(ordinals, untitled, media, canonical) ==
    <<Entry(MIMETYPE, File("mimetype")),
      Entry(CONTAINER_XML, File("pandoc")),
      Entry(CONTENT_OPF, File("pandoc")),
      Entry(TOC_NCX, File("pandoc")),
      Entry(NAV_XHTML, File("pandoc")),
      Entry(STYLESHEET1_CSS, File("pandoc")),
      Entry(TITLE_PAGE_XHTML, File("pandoc"))>>
    \o (LET names == Sorted({SourcePath(o, canonical) : o \in ordinals})
            ord(n) == CHOOSE o \in ordinals : SourcePath(o, canonical) = n
        IN [i \in 1..Len(names) |->
               Entry(names[i], Fragment(ord(names[i]), ord(names[i]) # untitled))])
    \o (IF media THEN <<Entry(MEDIA_IMAGE, File("image"))>> ELSE <<>>)

----------------------------------------------------------------------------
(* CreateWork.build: the lists its with block starts from *)

DEFAULT ==
    <<Entry(CORE_CSS, File("core.css")), Entry(LOGO_SVG, File("logo.svg")),
      Entry(ONIX_XML, File("onix.xml")), Entry(CONTAINER_XML, File("container.xml"))>>
FONTS == <<Entry(FONT, File("font"))>>
REMOVES == <<STYLESHEET1_CSS, TITLE_PAGE_XHTML, NAV_XHTML>>

----------------------------------------------------------------------------
(* State machine *)

Cur == Bundle(w, archive, tempfiles, "none")

\* a CreateWork object on which build() has not run
CreateWork(stateless, cover, dedication) ==
    [stateless |-> stateless, cover |-> cover, dedication |-> dedication,
     built |-> FALSE, raised |-> "none", flush |-> FALSE, i |-> 0,
     CHAPTERS |-> <<>>, spine |-> <<>>, word_count |-> 0, REMOVES |-> <<>>,
     image_manifest |-> <<>>, media |-> <<>>]
NoWork == CreateWork(FALSE, <<>>, "none")

Init ==
    /\ pc = "init"
    /\ archive = [dir |-> PandocArchive, tail |-> <<>>, partial |-> FALSE]
    /\ w = UpdateZipFile_init(archive)
    /\ tempfiles = <<>>
    /\ zip_read = <<>>
    /\ new_zip = <<>>
    /\ item = 0
    /\ exc = "none"
    /\ failed = "none"
    /\ ops = <<>>
    /\ orig = archive
    /\ at_exit = [archive |-> archive, staged |-> {}]
    /\ at_rebuild = archive
    /\ rebuilds = 0
    /\ work = NoWork

Where == IF pc = "init" THEN "before" ELSE IF pc = "open" THEN "inside" ELSE "after"

\* outcome of a call: the exception it raised, "staged" (kept in
\* self._replace) or "direct" (handed to ZipFile)
How(S, T, op) ==
    IF T.raised # "none" THEN T.raised
    ELSE IF op = "remove" \/ T.tempfiles # S.tempfiles THEN "staged"
    ELSE "direct"

Apply(T, op, key, data) ==
    /\ w' = T.w
    /\ archive' = T.archive
    /\ tempfiles' = T.tempfiles
    /\ ops' = Append(ops, [op |-> op, key |-> key, data |-> data,
                           how |-> How(Cur, T, op), where |-> Where,
                           existed |-> key.n \in namelist(w)])
    /\ UNCHANGED <<pc, zip_read, new_zip, item, exc, failed, orig, at_exit,
                   at_rebuild, rebuilds, work>>

CanCall ==
    /\ pc \in {"init", "open", "done"}
    /\ Len(ops) < MaxOps
    /\ pc = "init" => Len(ops) < MaxBefore

Writestr ==
    /\ CanCall
    /\ \E name \in Names, flush \in BOOLEAN :
          LET data == Data(Len(ops) + 1)
          IN Apply(writestr(Cur, name, data, flush), "write", StrKey(name), data)

Write ==
    /\ CanCall
    /\ \E name \in Names, exists \in BOOLEAN, flush \in BOOLEAN :
          LET data == Data(Len(ops) + 1)
          IN Apply(write(Cur, name, data, exists, flush), "write", StrKey(name), data)

RemoveFile ==
    /\ CanCall
    /\ \E name \in Names, t \in KeyTypes :
          LET key == [t |-> t, n |-> name]
          IN Apply(remove_file(Cur, key), "remove", key, <<>>)

Enter ==
    /\ pc = "init"
    /\ pc' = "open"
    /\ w' = enter(Cur).w
    /\ orig' = archive
    /\ UNCHANGED <<archive, tempfiles, zip_read, new_zip, item, exc, failed, ops,
                   at_exit, at_rebuild, rebuilds, work>>

\* variant: nothing is committed when the body of the with block raised
exit_rebuilds_unless_raised(zw, type) == type = "none" /\ NeedsRebuild(zw)

\* __exit__(self, type, value, traceback), after super().__exit__: the
\* rebuild runs whatever exception the body raised
exit_rebuilds(zw, type) == NeedsRebuild(zw)

\* __exit__, up to the call of _rebuild_zip
ExitClose ==
    /\ pc = "open"
    /\ \E fails \in BOOLEAN :
          LET T == ZipFile_close(Cur, fails)
          IN /\ w' = T.w
             /\ archive' = T.archive
             /\ exc' = T.raised
             /\ failed' = IF T.raised = "none" THEN "none" ELSE "close"
             /\ pc' = IF T.raised = "none" /\ exit_rebuilds(T.w, work.raised)
                      THEN "rebuild" ELSE "finally"
    /\ at_exit' = [archive |-> archive, staged |-> DOMAIN w.replace]
    /\ UNCHANGED <<tempfiles, zip_read, new_zip, item, ops, orig, at_rebuild, rebuilds, work>>

\* _rebuild_zip: mkdtemp, open the archive for reading and new.zip for writing
RebuildOpen ==
    /\ pc = "rebuild"
    /\ rebuilds' = rebuilds + 1
    /\ at_rebuild' = archive
    /\ \E fails \in BOOLEAN :
          IF fails \/ ~Readable(archive)
          THEN /\ pc' = "finally"
               /\ exc' = IF Readable(archive) THEN "OSError" ELSE "BadZipFile"
               /\ failed' = "open"
               /\ UNCHANGED <<zip_read, new_zip, item>>
          ELSE /\ pc' = "loop"
               /\ zip_read' = archive.dir
               /\ new_zip' = <<>>
               /\ item' = 1
               /\ UNCHANGED <<exc, failed>>
    /\ UNCHANGED <<w, archive, tempfiles, ops, orig, at_exit, work>>

\* variant: new entries are written straight into the archive at self.filename
zip_write_in_place(S, nz, e) ==
    [S |-> [S EXCEPT !.archive = [dir |-> Append(nz, e), tail |-> <<>>, partial |-> FALSE]],
     new_zip |-> Append(nz, e)]

\* zip_write.writestr(item, data): zip_write is <tempdir>/new.zip
zip_write_writestr(S, nz, e) == [S |-> S, new_zip |-> Append(nz, e)]

\* one pass of `for item in zip_read.infolist()`
\* fail: "none", "read" (reading the entry or the staged buffer raises),
\*       "write" (zip_write.writestr raises)
rebuild_item(S, zr, nz, it, fail) ==
    LET key == StrKey(it.name)
        staged == key \in DOMAIN S.w.replace
        replacement == S.w.replace[key]
    IN IF staged /\ replacement.del
       THEN [S |-> [S EXCEPT !.w.replace = Del(@, key)], new_zip |-> nz]
       ELSE IF staged
       THEN LET S1 == [S EXCEPT !.w.replace = Del(@, key)]
                tf == S.tempfiles[replacement.tmp]
            IN IF fail = "read"
               THEN [S |-> [S1 EXCEPT !.raised = "OSError"], new_zip |-> nz]
               ELSE LET S2 == [S1 EXCEPT !.tempfiles[replacement.tmp].closed = @ + 1]
                    IN IF fail = "write"
                       THEN [S |-> [S2 EXCEPT !.raised = "OSError"], new_zip |-> nz]
                       ELSE zip_write_writestr(S2, nz, Entry(it.name, tf.data))
       ELSE IF fail # "none"
       THEN [S |-> [S EXCEPT !.raised = "OSError"], new_zip |-> nz]
       ELSE zip_write_writestr(S, nz, Entry(it.name, ReadName(zr, it.name)))

RebuildItem ==
    /\ pc = "loop"
    /\ item <= Len(zip_read)
    /\ \E fail \in {"none", "read", "write"} :
          LET R == rebuild_item(Cur, zip_read, new_zip, zip_read[item], fail)
          IN /\ w' = R.S.w
             /\ archive' = R.S.archive
             /\ tempfiles' = R.S.tempfiles
             /\ exc' = R.S.raised
             /\ failed' = IF R.S.raised = "none" THEN "none" ELSE fail
             /\ IF R.S.raised = "none"
                THEN /\ new_zip' = R.new_zip
                     /\ item' = item + 1
                     /\ pc' = "loop"
                ELSE /\ new_zip' = <<>>
                     /\ item' = item
                     /\ pc' = "finally"
    /\ UNCHANGED <<zip_read, ops, orig, at_exit, at_rebuild, rebuilds, work>>

\* the archive after shutil.move(temp_zip_path, self.filename):
\* "moved": renamed or copied; "copyfail": the copy made when the rename is not
\* possible (tempdir on another filesystem) stopped part-way;
\* "closefail": closing new.zip raised, before the move
move(ar, nz, outcome) ==
    IF outcome = "moved" THEN [dir |-> nz, tail |-> <<>>, partial |-> FALSE]
    ELSE IF outcome = "copyfail" THEN [dir |-> <<>>, tail |-> <<>>, partial |-> TRUE]
    ELSE ar

RebuildMove ==
    /\ pc = "loop"
    /\ item > Len(zip_read)
    /\ \E outcome \in {"moved", "copyfail", "closefail"} :
          /\ archive' = move(archive, new_zip, outcome)
          /\ exc' = IF outcome = "moved" THEN "none" ELSE "OSError"
          /\ failed' = IF outcome = "moved" THEN "none" ELSE outcome
    /\ new_zip' = <<>>
    /\ pc' = "finally"
    /\ UNCHANGED <<w, tempfiles, zip_read, item, ops, orig, at_exit, at_rebuild, rebuilds, work>>

\* the finally clause of __exit__
ExitFinally ==
    /\ pc = "finally"
    /\ tempfiles' = close_all_temp_files(Cur).tempfiles
    /\ w' = [w EXCEPT !.allow_updates = FALSE]
    /\ pc' = "done"
    /\ UNCHANGED <<archive, zip_read, new_zip, item, exc, failed, ops, orig, at_exit,
                   at_rebuild, rebuilds, work>>

Next ==
    \/ Enter
    \/ Writestr
    \/ Write
    \/ RemoveFile
    \/ ExitClose
    \/ RebuildOpen
    \/ RebuildItem
    \/ RebuildMove
    \/ ExitFinally

Spec == Init /\ [][Next]_vars

----------------------------------------------------------------------------
(* CreateWork.build on the archive the converter has written *)

\* values of self.metadata.word_count when build() is called
PriorWordCounts == {0, 7}

\* the covers build() finds: none, one, or (stateless) the files cover.jpg
\* and cover.png that two set_cover calls have left in the work directory
CoverFiles == {<<>>, <<COVER_PNG>>, <<COVER_JPG, COVER_PNG>>}

InitBuild ==
    /\ pc = "build"
    /\ \E canonical \in BOOLEAN, media \in BOOLEAN :
          \E ordinals \in ChapterSets(canonical) :
             \E untitled \in {0} \cup ordinals :
                archive = [dir |-> PandocEpub(ordinals, untitled, media, canonical),
                           tail |-> <<>>, partial |-> FALSE]
    /\ w = UpdateZipFile_init(archive)
    /\ tempfiles = <<>>
    /\ zip_read = <<>>
    /\ new_zip = <<>>
    /\ item = 0
    /\ exc = "none"
    /\ failed = "none"
    /\ ops = <<>>
    /\ orig = archive
    /\ at_exit = [archive |-> archive, staged |-> {}]
    /\ at_rebuild = archive
    /\ rebuilds = 0
    /\ \E stateless \in BOOLEAN, cover \in CoverFiles, dedication \in {"none", "memory", "file"},
          flush \in BOOLEAN :
          /\ dedication = "file" => stateless
          /\ Len(cover) > 1 => stateless
          /\ \E word_count \in PriorWordCounts :
                work = [CreateWork(stateless, cover, dedication)
                            EXCEPT !.flush = flush, !.word_count = word_count]

\* a statement of the with body has run: T is what it made of w, the archive
\* file and the temporary files, wk the locals; an exception leaves the block
\* (and __exit__ runs), otherwise control is at next
Step(T, wk, next) ==
    /\ w' = T.w
    /\ archive' = T.archive
    /\ tempfiles' = T.tempfiles
    /\ pc' = IF T.raised # "none" THEN "open" ELSE next
    /\ work' = [wk EXCEPT !.raised = T.raised,
                          !.built = T.raised # "none" \/ next = "open"]
    /\ UNCHANGED <<zip_read, new_zip, item, exc, failed, ops, orig, at_exit,
                   at_rebuild, rebuilds>>

\* variant: the count goes on from the value it had
word_count_kept(word_count) == word_count

\* self.metadata.word_count = 0
word_count_reset(word_count) == 0

\* variant: the chapter is put in front of the spine
spine_append_front(spine, m) == <<m>> \o spine

\* spine.append(Matter(partition=MatterPartition.body, title=chapter_title))
spine_append(spine, m) == Append(spine, m)

\* with UpdateZipFile(epub_path, "a") as w: REMOVES = [...]
BuildEnter ==
    /\ pc = "build"
    /\ Step(enter(Cur), [work EXCEPT !.REMOVES = REMOVES, !.i = 1], "default")

\* for default_file, write_file in DEFAULT: w.write(default_file, write_file)
BuildDefault ==
    /\ pc = "default"
    /\ Step(write(Cur, DEFAULT[work.i].name, DEFAULT[work.i].data, TRUE, work.flush),
            [work EXCEPT !.i = IF work.i < Len(DEFAULT) THEN work.i + 1 ELSE 1],
            IF work.i < Len(DEFAULT) THEN "default" ELSE "fonts")

\* for f in os.listdir(fonts): w.write(fonts / f, F"EPUB/fonts/{f}")
BuildFonts ==
    /\ pc = "fonts"
    /\ Step(write(Cur, FONTS[work.i].name, FONTS[work.i].data, TRUE, work.flush),
            [work EXCEPT !.i = IF work.i < Len(FONTS) THEN work.i + 1 ELSE 1],
            IF work.i < Len(FONTS) THEN "fonts" ELSE "titlepage")

BuildTitlepage ==
    /\ pc = "titlepage"
    /\ Step(writestr(Cur, TITLEPAGE_XHTML, File("titlepage"), work.flush), work, "colophon")

BuildColophon ==
    /\ pc = "colophon"
    /\ Step(writestr(Cur, COLOPHON_XHTML, File("colophon"), work.flush), work, "cover")

\* stateless: one turn of the loop over the cover files of the directory;
\* else self.cover, if set
BuildCover ==
    /\ pc = "cover"
    /\ IF work.cover = <<>> THEN Step(Cur, work, "dedication")
       ELSE Step(IF work.stateless
                 THEN write(Cur, work.cover[work.i], File("cover"), TRUE, work.flush)
                 ELSE writestr(Cur, work.cover[work.i], File("cover"), work.flush),
                 [work EXCEPT !.i = IF work.i < Len(work.cover) THEN work.i + 1 ELSE 1],
                 IF work.i < Len(work.cover) THEN "cover" ELSE "dedication")

\* spine = []; the dedication, if any, is written and opens the spine
BuildDedication ==
    /\ pc = "dedication"
    /\ LET T == IF work.dedication = "memory"
                THEN writestr(Cur, DEDICATION_XHTML, File("dedication"), work.flush)
                ELSE IF work.dedication = "file"
                THEN write(Cur, DEDICATION_XHTML, File("dedication"), TRUE, work.flush)
                ELSE Cur
           m == Matter("frontmatter", "dedication", DEDICATION_TITLE)
       IN Step(T,
               [work EXCEPT !.spine = IF work.dedication # "none" /\ T.raised = "none" /\ MatterValid(m)
                                      THEN <<m>> ELSE <<>>],
               "chapters")

\* CHAPTERS = [f for f in w.namelist() if f.startswith("EPUB/text/ch")];
\* CHAPTERS.sort(); self.metadata.word_count = 0
BuildChapters ==
    /\ pc = "chapters"
    /\ LET CHAPTERS == Sorted({n \in namelist(w) : IsChapter(n)})
       IN Step(Cur, [work EXCEPT !.CHAPTERS = CHAPTERS,
                                 !.word_count = word_count_reset(work.word_count), !.i = 1],
               IF CHAPTERS = <<>> THEN "images" ELSE "chapter")

\* one turn of `for chapter in CHAPTERS`
BuildChapter ==
    /\ pc = "chapter"
    /\ LET chapter == work.CHAPTERS[work.i]
           file_as == FileAs(chapter)
           next == IF work.i < Len(work.CHAPTERS) THEN "chapter" ELSE "images"
           wk == [work EXCEPT !.i = IF work.i < Len(work.CHAPTERS) THEN work.i + 1 ELSE 1]
       IN IF ~HasName(w.filelist, chapter)
          THEN Step(Cur, wk, next)
          ELSE LET removes == IF file_as # chapter THEN Append(work.REMOVES, chapter)
                              ELSE work.REMOVES
                   chapter_xml == restructure_chapter(ReadName(w.filelist, chapter)[1])
                   chapter_title == chapter_xml.title
                   word_count == work.word_count + chapter_xml.words
                   T == writestr(Cur, file_as, <<chapter_xml>>, work.flush)
                   m == Matter("bodymatter", "none", chapter_title)
                   wk1 == [wk EXCEPT !.REMOVES = removes, !.word_count = word_count]
               IN IF T.raised # "none" THEN Step(T, wk1, next)
                  ELSE IF ~MatterValid(m)
                  THEN Step([T EXCEPT !.raised = "ValidationError"], wk1, next)
                  ELSE Step(T, [wk1 EXCEPT !.spine = spine_append(work.spine, m)], next)

\* image_manifest = [... if f.startswith("EPUB/images/")] and the list of
\* the names under EPUB/media/ the next loop runs over
BuildImages ==
    /\ pc = "images"
    /\ LET media == SelectSeq(NameSeq(w.filelist), IsMedia)
       IN Step(Cur, [work EXCEPT !.image_manifest = SelectSeq(NameSeq(w.filelist), IsImage),
                                 !.media = media, !.i = 1],
               IF media = <<>> THEN "content.opf" ELSE "media")

\* one turn of `for img in [... if f.startswith("EPUB/media/")]`
BuildMedia ==
    /\ pc = "media"
    /\ LET img == work.media[work.i]
           new_img == MediaToImages(img)
           next == IF work.i < Len(work.media) THEN "media" ELSE "content.opf"
           wk == [work EXCEPT !.i = IF work.i < Len(work.media) THEN work.i + 1 ELSE 1,
                              !.REMOVES = Append(work.REMOVES, img)]
       IN IF ~HasName(w.filelist, img)
          THEN Step(Cur, wk, next)
          ELSE LET T == writestr(Cur, new_img, ReadName(w.filelist, img), work.flush)
               IN Step(T, IF T.raised # "none" THEN wk
                          ELSE [wk EXCEPT !.image_manifest = Append(work.image_manifest, new_img)],
                       next)

BuildContentOpf ==
    /\ pc = "content.opf"
    /\ Step(writestr(Cur, CONTENT_OPF,
                     create_content_opf([word_count |-> work.word_count],
                                        work.image_manifest, work.spine),
                     work.flush),
            work, "toc.ncx")

BuildTocNcx ==
    /\ pc = "toc.ncx"
    /\ Step(writestr(Cur, TOC_NCX,
                     create_toc_ncx([word_count |-> work.word_count], work.spine), work.flush),
            work, "toc.xhtml")

BuildTocXhtml ==
    /\ pc = "toc.xhtml"
    /\ Step(writestr(Cur, TOC_XHTML,
                     create_toc_xhtml([word_count |-> work.word_count], work.spine), work.flush),
            [work EXCEPT !.i = 1], "removes")

\* one turn of `for remove in REMOVES: w.remove_file(remove)`
BuildRemove ==
    /\ pc = "removes"
    /\ Step(remove_file(Cur, StrKey(work.REMOVES[work.i])),
            [work EXCEPT !.i = IF work.i < Len(work.REMOVES) THEN work.i + 1 ELSE 1],
            IF work.i < Len(work.REMOVES) THEN "removes" ELSE "open")

NextBuild ==
    \/ BuildEnter
    \/ BuildDefault
    \/ BuildFonts
    \/ BuildTitlepage
    \/ BuildColophon
    \/ BuildCover
    \/ BuildDedication
    \/ BuildChapters
    \/ BuildChapter
    \/ BuildImages
    \/ BuildMedia
    \/ BuildContentOpf
    \/ BuildTocNcx
    \/ BuildTocXhtml
    \/ BuildRemove
    \/ ExitClose
    \/ RebuildOpen
    \/ RebuildItem
    \/ RebuildMove
    \/ ExitFinally

SpecBuild == InitBuild /\ [][NextBuild]_vars

----------------------------------------------------------------------------
(* Matter and the generators of pages.py on the spines made of Matter values *)

\* content tags and titles tried: no tag, the dedication, another front
\* matter tag, a body matter tag, a back matter tag; no title or one of two
Contents == {"none", "dedication", "foreword", "prologue", "colophon"}
MatterTitles == {0, 101, 102}

InitPages ==
    /\ pc = "spine"
    /\ work = [spine |-> <<>>, raised |-> "none", rejected |-> <<>>, accepted |-> 0,
               content_opf |-> <<>>, toc_ncx |-> <<>>, toc_xhtml |-> <<>>]
    /\ archive = [dir |-> PandocArchive, tail |-> <<>>, partial |-> FALSE]
    /\ w = UpdateZipFile_init(archive)
    /\ tempfiles = <<>>
    /\ zip_read = <<>>
    /\ new_zip = <<>>
    /\ item = 0
    /\ exc = "none"
    /\ failed = "none"
    /\ ops = <<>>
    /\ orig = archive
    /\ at_exit = [archive |-> archive, staged |-> {}]
    /\ at_rebuild = archive
    /\ rebuilds = 0

\* spine.append(Matter(partition=p, content=c, title=t)): the validator
\* raises, or the new value joins the spine
NewMatter ==
    /\ pc = "spine"
    /\ Len(work.spine) < MaxSpine
    /\ \E p \in MatterPartition, c \in Contents, t \in MatterTitles :
          LET m == Matter(p, c, t)
          IN IF MatterValid(m)
             THEN /\ work' = [work EXCEPT !.spine = Append(@, m), !.accepted = @ + 1]
                  /\ pc' = "spine"
             ELSE /\ work' = [work EXCEPT !.raised = "ValidationError", !.rejected = <<m>>]
                  /\ pc' = "rejected"
    /\ UNCHANGED <<w, archive, tempfiles, zip_read, new_zip, item, exc, failed, ops,
                   orig, at_exit, at_rebuild, rebuilds>>

CreateContentOpf ==
    /\ pc \in {"spine", "pages"}
    /\ work.content_opf = <<>>
    /\ work' = [work EXCEPT !.content_opf =
                                create_content_opf([word_count |-> 0], <<>>, work.spine)]
    /\ pc' = "pages"
    /\ UNCHANGED <<w, archive, tempfiles, zip_read, new_zip, item, exc, failed, ops,
                   orig, at_exit, at_rebuild, rebuilds>>

CreateTocNcx ==
    /\ pc \in {"spine", "pages"}
    /\ work.toc_ncx = <<>>
    /\ work' = [work EXCEPT !.toc_ncx = create_toc_ncx([word_count |-> 0], work.spine)]
    /\ pc' = "pages"
    /\ UNCHANGED <<w, archive, tempfiles, zip_read, new_zip, item, exc, failed, ops,
                   orig, at_exit, at_rebuild, rebuilds>>

CreateTocXhtml ==
    /\ pc \in {"spine", "pages"}
    /\ work.toc_xhtml = <<>>
    /\ work' = [work EXCEPT !.toc_xhtml = create_toc_xhtml([word_count |-> 0], work.spine)]
    /\ pc' = "pages"
    /\ UNCHANGED <<w, archive, tempfiles, zip_read, new_zip, item, exc, failed, ops,
                   orig, at_exit, at_rebuild, rebuilds>>

NextPages ==
    \/ NewMatter
    \/ CreateContentOpf
    \/ CreateTocNcx
    \/ CreateTocXhtml

SpecPages == InitPages /\ [][NextPages]_vars

----------------------------------------------------------------------------
(* CreateWork: metadata and sources *)

\* an Optional value: None, or the value
None == <<>>
Some(x) == <<x>>

\* titles tried: two words, and one word without a letter or digit
Titles == {<<"A", " ", "b">>, <<"!">>}

\* str.lower and str.isalnum on the characters of the titles
lower(c) == IF c = "A" THEN "a" ELSE c
isalnum(c) == c \in {"A", "a", "b"}

\* title.split(" ")
RECURSIVE split(_)
split(str) ==
    IF str = <<>> THEN <<<<>>>>
    ELSE IF Head(str) = " " THEN <<<<>>>> \o split(Tail(str))
    ELSE <<<<Head(str)>> \o Head(split(Tail(str)))>> \o Tail(split(Tail(str)))

\* "-".join(words)
RECURSIVE join(_)
join(words) ==
    IF words = <<>> THEN <<>>
    ELSE IF Len(words) = 1 THEN words[1]
    ELSE words[1] \o <<"-">> \o join(Tail(words))

\* "-".join(["".join([e for e in w if e.isalnum()])
\*           for w in self.metadata.title.lower().split(" ")])
work_name_of(title) ==
    LET words == split([i \in 1..Len(title) |-> lower(title[i])])
    IN join([i \in 1..Len(words) |-> SelectSeq(words[i], isalnum)])

\* the fields of WorkMetadata followed here; title is required
MetadataFields == {"title", "identifier", "description", "contributor", "long_rights"}
\* the value of a field that is not supplied: a new urn for identifier, None
\* (0, or no contributor) for the others
MetadataDefault(f, urn) ==
    IF f = "identifier" THEN 100 + urn ELSE IF f = "contributor" THEN <<>> ELSE 0

\* the dictionaries set_metadata is called with
MetadataInputs ==
    {md \in UNION {[D -> {1, 2}] : D \in SUBSET {"identifier", "description"}} :
        "identifier" \in DOMAIN md => md["identifier"] = 1}
MetadataCalls ==
    MetadataInputs
    \cup {md @@ [f \in {"title"} |-> t] : md \in MetadataInputs, t \in Titles}

\* pathlib: directory / name
PathJoin(directory, name) == IF name = <<>> THEN directory ELSE Append(directory, name)
BaseDirectory == <<<<"d">>>>

\* open(directory / name, "w").write(content): the directory has to exist;
\* fs.opened keeps every path a call has tried to open for writing
WriteFile(o, name, content) ==
    IF o.directory \notin o.fs.dirs
    THEN [obj |-> [o EXCEPT !.fs.opened = @ \cup {<<o.directory, name>>}],
          raised |-> "FileNotFoundError"]
    ELSE [obj |-> [o EXCEPT !.fs.opened = @ \cup {<<o.directory, name>>},
                            !.fs.files =
                                {f \in @ : ~(f.dir = o.directory /\ f.name = name)}
                                \cup {[dir |-> o.directory, name |-> name, content |-> content]}],
          raised |-> "none"]

\* _c.save_json(self.metadata.dict(by_alias=True), self.directory / "work_metadata.json")
save_json(o) == WriteFile(o, "work_metadata.json", o.metadata)

\* _c.check_path(self.directory)
check_path(o) == [o EXCEPT !.fs.dirs = @ \cup {o.directory}]

\* CreateWork(directory, stateless=...): no metadata given and none saved
\* in the directory
CreateWork_init(stateless) ==
    LET o == [stateless |-> stateless, directory |-> BaseDirectory, metadata |-> None,
              work_name |-> None, work |-> None, cover |-> None, dedication |-> None,
              fs |-> [dirs |-> {BaseDirectory}, files |-> {}, opened |-> {}]]
    IN IF stateless THEN check_path(o) ELSE o

\* not self.work_name or not self.metadata
NotSet(o) == o.work_name = None \/ o.work_name[1] = <<>> \/ o.metadata = None

\* variant: every field of the new model replaces the old one
copy_update_all(old, updated, fields_set) == updated

\* self.metadata.copy(update=updated_metadata.dict(exclude_unset=True))
copy_update(old, updated, fields_set) ==
    [f \in MetadataFields |-> IF f \in fields_set THEN updated[f] ELSE old[f]]

set_metadata(o, md, urn) ==
    IF "title" \notin DOMAIN md
    THEN [obj |-> o, raised |-> "ValidationError"]
    ELSE LET updated_metadata ==
                 [f \in MetadataFields |->
                     IF f \in DOMAIN md THEN md[f] ELSE MetadataDefault(f, urn)]
             metadata == IF o.metadata # None
                         THEN copy_update(o.metadata[1], updated_metadata, DOMAIN md)
                         ELSE updated_metadata
             work_name == work_name_of(metadata.title)
             o1 == IF o.work_name = None \/ o.work_name[1] = <<>>
                   THEN [o EXCEPT !.metadata = Some(metadata),
                                  !.work_name = Some(work_name),
                                  !.directory = PathJoin(o.directory, work_name)]
                   ELSE [o EXCEPT !.metadata = Some(metadata)]
         IN IF o.stateless THEN save_json(check_path(o1))
            ELSE [obj |-> o1, raised |-> "none"]

\* valid: _get_validated_bytes returns the bytes of the source
set_document(o, valid) ==
    IF NotSet(o) THEN [obj |-> o, raised |-> "PermissionError"]
    ELSE IF ~valid THEN [obj |-> o, raised |-> "FileNotFoundError"]
    ELSE IF o.stateless THEN WriteFile(o, "docx", 1)
    ELSE [obj |-> [o EXCEPT !.work = Some(1)], raised |-> "none"]

\* self.metadata.contributor.append(Contributor(**contributor))
append_contributor(o) ==
    [o EXCEPT !.metadata = Some([o.metadata[1] EXCEPT !["contributor"] = Append(@, 1)])]

set_cover(o, contributor, valid) ==
    IF NotSet(o) THEN [obj |-> o, raised |-> "PermissionError"]
    ELSE IF ~valid
    THEN [obj |-> IF contributor THEN append_contributor(o) ELSE o,
          raised |-> "FileNotFoundError"]
    ELSE IF o.stateless
    THEN LET R == WriteFile(IF contributor THEN append_contributor(o) ELSE o, "cover", 1)
         IN IF R.raised # "none" THEN R ELSE save_json(R.obj)
    ELSE [obj |-> [(IF contributor THEN append_contributor(o) ELSE o)
                       EXCEPT !.cover = Some(1)],
          raised |-> "none"]

add_contributor(o) ==
    IF NotSet(o) THEN [obj |-> o, raised |-> "PermissionError"]
    ELSE save_json(append_contributor(o))

set_dedication(o) ==
    IF NotSet(o) THEN [obj |-> o, raised |-> "PermissionError"]
    ELSE IF o.stateless
    THEN WriteFile([o EXCEPT !.dedication = Some(1)], "dedication.xhtml", 1)
    ELSE [obj |-> [o EXCEPT !.dedication = Some(1)], raised |-> "none"]

set_rights(o) ==
    IF NotSet(o) THEN [obj |-> o, raised |-> "PermissionError"]
    ELSE save_json([o EXCEPT !.metadata = Some([o.metadata[1] EXCEPT !["long_rights"] = 1])])

\* build(), its first statement
build_guard(o) ==
    IF NotSet(o) THEN [obj |-> o, raised |-> "PermissionError"]
    ELSE [obj |-> o, raised |-> "none"]

InitWork ==
    /\ pc = "work"
    /\ \E stateless \in BOOLEAN : work = CreateWork_init(stateless)
    /\ archive = [dir |-> PandocArchive, tail |-> <<>>, partial |-> FALSE]
    /\ w = UpdateZipFile_init(archive)
    /\ tempfiles = <<>>
    /\ zip_read = <<>>
    /\ new_zip = <<>>
    /\ item = 0
    /\ exc = "none"
    /\ failed = "none"
    /\ ops = <<>>
    /\ orig = archive
    /\ at_exit = [archive |-> archive, staged |-> {}]
    /\ at_rebuild = archive
    /\ rebuilds = 0

\* a call on the object: its result, and the record of it
Call(op, arg, R) ==
    /\ pc = "work"
    /\ Len(ops) < MaxCalls
    /\ work' = R.obj
    /\ ops' = Append(ops, [op |-> op, arg |-> arg, how |-> R.raised, before |-> work])
    /\ pc' = IF op = "build" /\ R.raised = "none" THEN "pandoc" ELSE "work"
    /\ UNCHANGED <<w, archive, tempfiles, zip_read, new_zip, item, exc, failed,
                   orig, at_exit, at_rebuild, rebuilds>>

SetMetadata == \E md \in MetadataCalls : Call("set_metadata", md, set_metadata(work, md, Len(ops)))
SetDocument == \E valid \in BOOLEAN : Call("set_document", <<valid>>, set_document(work, valid))
SetCover ==
    \E contributor \in BOOLEAN, valid \in BOOLEAN :
        Call("set_cover", <<contributor, valid>>, set_cover(work, contributor, valid))
AddContributor == Call("add_contributor", <<>>, add_contributor(work))
SetDedication == Call("set_dedication", <<>>, set_dedication(work))
SetRights == Call("set_rights", <<>>, set_rights(work))
BuildStart == Call("build", <<>>, build_guard(work))

NextWork ==
    \/ SetMetadata
    \/ SetDocument
    \/ SetCover
    \/ AddContributor
    \/ SetDedication
    \/ SetRights
    \/ BuildStart

SpecWork == InitWork /\ [][NextWork]_vars

----------------------------------------------------------------------------
(* formats.get_text_rows *)

TITLEPAGE_WIDTH == 1000
TITLE_SIZE == 70
AUTHOR_SIZE == 58

\* a word is the number of its characters: the empty string between two
\* spaces, a short word, a long one, and one too long for the title page
WordLengths == {0, 5, 12, 40}
\* draw.textlength(phrase, font=font): every character, the space
\* included, is taken to advance by half the font size
textlength(chars, font_size) == chars * (font_size \div 2)

RECURSIVE SumSeq(_)
SumSeq(seq) == IF seq = <<>> THEN 0 ELSE Head(seq) + SumSeq(Tail(seq))

\* " ".join(words), as a number of characters
joined(words) == IF words = <<>> THEN 0 ELSE SumSeq(words) + Len(words) - 1

\* while end < rows * fitted_rows: text_rows.append(...); start and end move
\* on by fitted_rows; then the rest of the words, if any, is the last row
RECURSIVE fit_rows(_, _, _, _, _)
fit_rows(word_list, start, end, rows, fitted_rows) ==
    IF end < rows * fitted_rows
    THEN <<joined(SubSeq(word_list, start + 1, end))>>
             \o fit_rows(word_list, start + fitted_rows, end + fitted_rows, rows, fitted_rows)
    ELSE IF start < Len(word_list)
    THEN <<joined(SubSeq(word_list, start + 1, Len(word_list)))>>
    ELSE <<>>

\* the text rows of one pass of `while not fits_titlepage_width`
text_rows_of(word_list, rows) ==
    fit_rows(word_list, 0, Len(word_list) \div rows, rows, Len(word_list) \div rows)

\* max_width > TITLEPAGE_WIDTH
too_wide(text_rows, font_size) ==
    \E i \in 1..Len(text_rows) : textlength(text_rows[i], font_size) > TITLEPAGE_WIDTH

\* get_text_rows(text, font_size) is called: text.split(" ") and rows = 1
InitRows ==
    /\ pc = "fit"
    /\ \E n \in 1..MaxWords, font_size \in {TITLE_SIZE, AUTHOR_SIZE} :
          \E word_list \in [1..n -> WordLengths] :
             work = [word_list |-> word_list, font_size |-> font_size, rows |-> 1,
                     text_rows |-> <<>>]
    /\ archive = [dir |-> PandocArchive, tail |-> <<>>, partial |-> FALSE]
    /\ w = UpdateZipFile_init(archive)
    /\ tempfiles = <<>>
    /\ zip_read = <<>>
    /\ new_zip = <<>>
    /\ item = 0
    /\ exc = "none"
    /\ failed = "none"
    /\ ops = <<>>
    /\ orig = archive
    /\ at_exit = [archive |-> archive, staged |-> {}]
    /\ at_rebuild = archive
    /\ rebuilds = 0

\* one pass of `while not fits_titlepage_width`
FitRows ==
    /\ pc = "fit"
    /\ work.rows <= MaxRows
    /\ LET text_rows == text_rows_of(work.word_list, work.rows)
       IN IF too_wide(text_rows, work.font_size)
          THEN /\ work' = [work EXCEPT !.rows = @ + 1, !.text_rows = text_rows]
               /\ pc' = "fit"
          ELSE /\ work' = [work EXCEPT !.text_rows = text_rows]
               /\ pc' = "returned"
    /\ UNCHANGED <<w, archive, tempfiles, zip_read, new_zip, item, exc, failed, ops,
                   orig, at_exit, at_rebuild, rebuilds>>

NextRows == FitRows

SpecRows == InitRows /\ [][NextRows]_vars

\* the loop goes on as long as its condition holds
SpecRowsFair == SpecRows /\ WF_vars(FitRows)

----------------------------------------------------------------------------
(* ReviewWork.replace_image *)

\* an image name that is not in the work
NEW_IMAGE == Path("EPUB/images/image2.png")

\* f"EPUB/images/{source.name}" and f"EPUB/images/{replace}": an image of
\* the work, the logo, or a name that is new to the work
ImageNames == {IMAGES_IMAGE, LOGO_SVG, NEW_IMAGE}

\* f.startswith("EPUB/text/")
IsText(n) == n.k \in {"EPUB/text/chapter-", "EPUB/text/ch"}

\* a chapter of a built work and the images it shows
ChapterWith(imgs) == <<Doc("chapter", 0, 0, 0, [i \in 1..Len(imgs) |-> [src |-> imgs[i]]])>>

\* the work at self.source: two images, a chapter that shows the first and
\* a chapter without images
ReviewEpub ==
    <<Entry(MIMETYPE, File("mimetype")),
      Entry(CONTENT_OPF, create_content_opf([word_count |-> 0], <<LOGO_SVG, IMAGES_IMAGE>>, <<>>)),
      Entry(LOGO_SVG, File("logo.svg")),
      Entry(IMAGES_IMAGE, File("image")),
      Entry(ChapterPath(<<1>>), ChapterWith(<<IMAGES_IMAGE>>)),
      Entry(ChapterPath(<<2>>), ChapterWith(<<>>))>>

\* the manifest with the item of id `replace` exchanged for the new image's
replace_item(opf_xml, replace, name) ==
    [opf_xml EXCEPT !.images =
        [i \in 1..Len(@) |->
            IF @[i].id = replace
            THEN [href |-> name, id |-> name, properties |-> "none"]
            ELSE @[i]]]

\* img["src"] = img["src"].replace(replace, source.name) where it ends with replace
replace_src(chapter_xml, replace, name) ==
    [chapter_xml EXCEPT !.refs =
        [i \in 1..Len(@) |-> IF @[i].src = replace THEN [src |-> name] ELSE @[i]]]

\* ReviewWork(source).replace_image(source, replace) is called
InitReview ==
    /\ pc = "review"
    /\ archive = [dir |-> ReviewEpub, tail |-> <<>>, partial |-> FALSE]
    /\ w = UpdateZipFile_init(archive)
    /\ tempfiles = <<>>
    /\ zip_read = <<>>
    /\ new_zip = <<>>
    /\ item = 0
    /\ exc = "none"
    /\ failed = "none"
    /\ ops = <<>>
    /\ orig = archive
    /\ at_exit = [archive |-> archive, staged |-> {}]
    /\ at_rebuild = archive
    /\ rebuilds = 0
    /\ \E source \in ImageNames, replace \in ImageNames, exists \in BOOLEAN, flush \in BOOLEAN :
          work = [source |-> source, replace |-> replace, exists |-> exists, flush |-> flush,
                  chapters |-> <<>>, i |-> 0, raised |-> "none", built |-> FALSE]

\* with UpdateZipFile(self.source, "a") as w:
ReviewEnter ==
    /\ pc = "review"
    /\ Step(enter(Cur), work, "image")

\* w.write(source, f"EPUB/images/{source.name}")
ReviewWrite ==
    /\ pc = "image"
    /\ Step(write(Cur, work.source, File("source"), work.exists, work.flush), work, "replace")

\* w.remove_file(f"EPUB/images/{replace}")
ReviewRemove ==
    /\ pc = "replace"
    /\ Step(remove_file(Cur, StrKey(work.replace)), work, "manifest")

\* the manifest is read, its item exchanged, and written back; then the
\* list of the names under EPUB/text/
ReviewManifest ==
    /\ pc = "manifest"
    /\ LET opf_xml == replace_item(ReadName(w.filelist, CONTENT_OPF)[1], work.replace, work.source)
           chapters == SelectSeq(NameSeq(w.filelist), IsText)
       IN Step(writestr(Cur, CONTENT_OPF, <<opf_xml>>, work.flush),
               [work EXCEPT !.chapters = chapters, !.i = 1],
               IF chapters = <<>> THEN "open" ELSE "text")

\* one turn of `for chapter in [...]`
ReviewChapter ==
    /\ pc = "text"
    /\ LET chapter == work.chapters[work.i]
           chapter_xml == ReadName(w.filelist, chapter)[1]
           has_replaced == \E i \in 1..Len(chapter_xml.refs) : chapter_xml.refs[i].src = work.replace
           next == IF work.i < Len(work.chapters) THEN "text" ELSE "open"
       IN Step(IF has_replaced
               THEN writestr(Cur, chapter,
                             <<replace_src(chapter_xml, work.replace, work.source)>>, work.flush)
               ELSE Cur,
               [work EXCEPT !.i = IF work.i < Len(work.chapters) THEN work.i + 1 ELSE 1],
               next)

NextReview ==
    \/ ReviewEnter
    \/ ReviewWrite
    \/ ReviewRemove
    \/ ReviewManifest
    \/ ReviewChapter
    \/ ExitClose
    \/ RebuildOpen
    \/ RebuildItem
    \/ RebuildMove
    \/ ExitFinally

SpecReview == InitReview /\ [][NextReview]_vars

----------------------------------------------------------------------------
(* Vocabulary of the claims *)

\* the calls made on archive path n
CallsOn(n) == {i \in 1..Len(ops) : ops[i].key.n = n}
\* the calls that returned without raising
Accepted(n) == {i \in CallsOn(n) : ops[i].how \in {"staged", "direct"}}
Last(I) == CHOOSE i \in I : \A j \in I : j <= i

AllInside == \A i \in 1..Len(ops) : ops[i].where = "inside"

\* the session has exited and __exit__ returned normally
Committed == pc = "done" /\ exc = "none"

Present(n) == Readable(archive) /\ HasName(archive.dir, n)
Holds(n, data) == Present(n) /\ ReadName(archive.dir, n) = data

----------------------------------------------------------------------------
(* C1 *)

\* C1: after a session of staged writes and deletes has exited, every path
\* of the original archive with no call keeps its original payload, every
\* path whose last call is a write holds exactly the bytes of that write, and
\* every path whose last call is a delete is absent.
C1_RebuiltArchiveIsOverlay ==
    (Committed /\ AllInside) =>
        \A n \in Names :
            IF CallsOn(n) = {}
            THEN HasName(orig.dir, n) => Holds(n, ReadName(orig.dir, n))
            ELSE Accepted(n) # {} =>
                    LET last == ops[Last(Accepted(n))]
                    IN IF last.op = "write" THEN Holds(n, last.data) ELSE ~Present(n)

----------------------------------------------------------------------------
(* C2 *)

BeforeMove == {"open", "read", "write", "closefail"}

\* C2: while _rebuild_zip runs, and after it failed at any step before the
\* move, the file at the archive path is the file _rebuild_zip found; when
\* nothing was appended in the session it is the file the session opened.
C2_CommitIsAtomic ==
    /\ pc = "loop" => archive = at_rebuild
    /\ (pc \in {"finally", "done"} /\ failed \in BeforeMove) =>
            /\ archive = at_rebuild
            /\ ~w.didModify => archive = orig

\* a rebuild that has copied or replaced an entry and then failed
C2_Witness ==
    /\ pc = "done"
    /\ failed = "write"
    /\ item > 1
    /\ archive = orig

----------------------------------------------------------------------------
(* C3 *)

\* C3: two or more writes to one existing archive path in a session: after
\* commit the path holds exactly the bytes of the last write.
C3_LastWriteWins ==
    (Committed /\ AllInside) =>
        \A n \in Names :
            (/\ HasName(orig.dir, n)
             /\ Cardinality(CallsOn(n)) >= 2
             /\ \A i \in CallsOn(n) : ops[i].op = "write" /\ ops[i].how = "staged")
            => Holds(n, ops[Last(CallsOn(n))].data)

----------------------------------------------------------------------------
(* C4 *)

\* C4 as stated: while the session is open the archive file is the file the
\* session opened, whatever calls were made.
C4_NoCallTouchesArchive == pc = "open" => archive = orig

InsideWrites == {i \in 1..Len(ops) : ops[i].where = "inside" /\ ops[i].op = "write"}

\* C4 amended: while the session is open, as long as every write of the
\* session was to a path already in the archive's name list (deletes are
\* unrestricted), the archive file is the file the session opened.
C4_StagedCallsDoNotTouchArchive ==
    (pc = "open" /\ \A i \in InsideWrites : ops[i].existed) => archive = orig

\* an open session holding a staged write and a staged delete
C4_Witness ==
    /\ pc = "open"
    /\ \E i, j \in 1..Len(ops) :
          /\ ops[i].where = "inside" /\ ops[i].op = "write" /\ ops[i].how = "staged"
          /\ ops[j].where = "inside" /\ ops[j].op = "remove"
    /\ \A i \in InsideWrites : ops[i].existed
    /\ archive = orig

----------------------------------------------------------------------------
(* C5 *)

\* C5: a write to a path that was not in the archive when the write was
\* issued, with no later call on that path, is in the archive with its bytes
\* after the session has exited, whether or not a rebuild ran.
C5_NewPathWriteLands ==
    (Committed /\ AllInside) =>
        \A i \in 1..Len(ops) :
            (/\ ops[i].op = "write"
             /\ ~ops[i].existed
             /\ ops[i].how = "direct"
             /\ \A j \in CallsOn(ops[i].key.n) : j <= i)
            => Holds(ops[i].key.n, ops[i].data)

----------------------------------------------------------------------------
(* C6 *)

\* C6: after __exit__ has returned or raised, self._replace is empty.
C6_PendingMapDrained ==
    (pc = "done" /\ AllInside) => DOMAIN w.replace = {}

----------------------------------------------------------------------------
(* C7 *)

\* C7: after __exit__ has returned or raised, every temporary file created
\* in the session has been closed exactly once.
C7_BuffersReleasedOnce ==
    (pc = "done" /\ AllInside) =>
        \A i \in 1..Len(tempfiles) : tempfiles[i].closed = 1

----------------------------------------------------------------------------
(* C8 *)

\* C8: _rebuild_zip runs at most once, never before the session closes, and
\* only with a non-empty self._replace; a session with no call at all runs no
\* rebuild and leaves the archive file as it was.
C8_RebuildOnceAtCloseIfStaged ==
    /\ rebuilds <= 1
    /\ pc \in {"init", "open"} => rebuilds = 0
    /\ (pc = "rebuild" \/ rebuilds > 0) => at_exit.staged # {}
    /\ ops = <<>> => rebuilds = 0 /\ archive = orig

\* a session with staged operations that has committed
C8_Witness == Committed /\ rebuilds = 1 /\ AllInside /\ ops # <<>>

----------------------------------------------------------------------------
(* C9 *)

\* C9: a writestr / write / remove_file call made before __enter__ or after
\* __exit__ is rejected (raises).
C9_CallsOutsideSessionRejected ==
    \A i \in 1..Len(ops) :
        ops[i].where # "inside" => ops[i].how \notin {"staged", "direct"}

----------------------------------------------------------------------------
(* C10 *)

\* build() has run, its body raised nothing and its session has committed
Built == work.built /\ work.raised = "none" /\ Committed

\* C10: after build(), the i-th discovered fragment in sorted order, as
\* restructured, is the archive entry EPUB/text/chapter-i.xhtml, for every
\* i in 1..K, whatever the fragments' source ordinals.
C10_RenumberingClosesGaps ==
    Built =>
        \A i \in 1..Len(work.CHAPTERS) :
            Holds(ChapterPath(Digits(i)),
                  <<restructure_chapter(ReadName(orig.dir, work.CHAPTERS[i])[1])>>)

----------------------------------------------------------------------------
(* C11 *)

\* the chapter paths of a directory, and the elements of a sequence
ChapterNames(dir) == {dir[i].name : i \in {j \in 1..Len(dir) : IsChapter(dir[j].name)}}
Elems(seq) == {seq[i] : i \in 1..Len(seq)}

\* the archive build() started from holds its chapters as chapter-1 .. chapter-N
CanonicalInput ==
    ChapterNames(orig.dir) =
        {ChapterPath(Digits(i)) : i \in 1..Cardinality(ChapterNames(orig.dir))}

\* C11: when the archive already holds chapter-1 .. chapter-N, build()
\* writes each of these N paths again, schedules none of them for deletion,
\* and the rebuilt archive holds the same N chapter paths.
C11_RenumberingIsIdempotent ==
    (Built /\ CanonicalInput) =>
        /\ \A n \in ChapterNames(orig.dir) :
              StrKey(n) \in at_exit.staged /\ n \notin Elems(work.REMOVES)
        /\ Readable(archive)
        /\ ChapterNames(archive.dir) = ChapterNames(orig.dir)

\* the same for the books of fewer than ten chapters
C11_IdempotentBelowTen ==
    (Built /\ CanonicalInput /\ Cardinality(ChapterNames(orig.dir)) < 10) =>
        /\ \A n \in ChapterNames(orig.dir) :
              StrKey(n) \in at_exit.staged /\ n \notin Elems(work.REMOVES)
        /\ Readable(archive)
        /\ ChapterNames(archive.dir) = ChapterNames(orig.dir)

----------------------------------------------------------------------------
(* C12 *)

\* the archive build() started from holds the fragments ch001 .. ch<N>
ContiguousInput ==
    ChapterNames(orig.dir) =
        {FragmentPath(Pad3(i)) : i \in 1..Cardinality(ChapterNames(orig.dir))}

\* the paths a generated document of the archive lists
Hrefs(n) ==
    LET refs == ReadName(archive.dir, n)[1].refs
    IN {refs[i].href : i \in 1..Len(refs)}

\* C12: after build() over the fragments ch001 .. ch<N>, the archive holds
\* EPUB/text/chapter-i.xhtml for every i in 1..N with the restructured
\* content of the i-th fragment, and every path content.opf, toc.ncx and
\* toc.xhtml list is an entry of the archive.
C12_ChapterEntriesExist ==
    (Built /\ ContiguousInput) =>
        /\ \A i \in 1..Cardinality(ChapterNames(orig.dir)) :
              Holds(ChapterPath(Digits(i)),
                    <<restructure_chapter(ReadName(orig.dir, FragmentPath(Pad3(i)))[1])>>)
        /\ \A n \in {CONTENT_OPF, TOC_NCX, TOC_XHTML} :
              Present(n) /\ \A h \in Hrefs(n) : Present(h)

\* the same for the books of fewer than ten chapters
C12_EntriesExistBelowTen ==
    (Built /\ ContiguousInput /\ Cardinality(ChapterNames(orig.dir)) < 10) =>
        /\ \A i \in 1..Cardinality(ChapterNames(orig.dir)) :
              Holds(ChapterPath(Digits(i)),
                    <<restructure_chapter(ReadName(orig.dir, FragmentPath(Pad3(i)))[1])>>)
        /\ \A n \in {CONTENT_OPF, TOC_NCX, TOC_XHTML} :
              Present(n) /\ \A h \in Hrefs(n) : Present(h)

----------------------------------------------------------------------------
(* C13 *)

\* a spine of a dedication followed by body entries only
DedicationAndChapters(spine) ==
    /\ Len(spine) >= 1
    /\ spine[1].content = "dedication"
    /\ \A i \in 2..Len(spine) : spine[i].partition = "bodymatter"

\* the dedication, then chapter-1 .. chapter-K
ContentEntries(K) ==
    [i \in 1..(K + 1) |-> IF i = 1 THEN DEDICATION_XHTML ELSE ChapterPath(Digits(i - 1))]

HrefsOf(refs) == [i \in 1..Len(refs) |-> refs[i].href]
TitlesOf(refs) == [i \in 1..Len(refs) |-> refs[i].title]
\* the navPoints between the title page and the colophon
NavContent(ncx) == SubSeq(ncx[1].refs, 2, Len(ncx[1].refs) - 1)

\* C13: for a spine of a dedication and K body chapters, the manifest and
\* the spine of content.opf, the navMap of toc.ncx and the list of toc.xhtml
\* each reference the dedication and chapter-1 .. chapter-K, in this order,
\* and toc.ncx and toc.xhtml carry the same titles.
C13_ManifestsAgree ==
    (pc = "pages" /\ DedicationAndChapters(work.spine)) =>
        LET K == Len(work.spine) - 1
        IN /\ work.content_opf # <<>> =>
                /\ HrefsOf(work.content_opf[1].refs) = ContentEntries(K)
                /\ [i \in 1..Len(work.content_opf[1].itemrefs) |->
                       work.content_opf[1].itemrefs[i].idref] = ContentEntries(K)
           /\ work.toc_ncx # <<>> =>
                /\ HrefsOf(NavContent(work.toc_ncx)) = ContentEntries(K)
                /\ TitlesOf(NavContent(work.toc_ncx)) = TitlesOf(work.spine)
           /\ work.toc_xhtml # <<>> =>
                /\ HrefsOf(work.toc_xhtml[1].refs) = ContentEntries(K)
                /\ TitlesOf(work.toc_xhtml[1].refs) = TitlesOf(work.spine)

\* the three documents made from a dedication and two chapters
C13_Witness ==
    /\ pc = "pages"
    /\ DedicationAndChapters(work.spine)
    /\ Len(work.spine) = 3
    /\ work.content_opf # <<>> /\ work.toc_ncx # <<>> /\ work.toc_xhtml # <<>>

----------------------------------------------------------------------------
(* C14 *)

\* a spine as the generators expect it: the dedication, if any, first and
\* once, every other entry a body entry
IsSpine(spine) ==
    \A i \in 1..Len(spine) :
        \/ spine[i].partition = "bodymatter"
        \/ i = 1 /\ spine[i].content = "dedication"

BodyCount(spine) == Cardinality({i \in 1..Len(spine) : spine[i].partition = "bodymatter"})

\* [dedication], chapter-1 .. chapter-N
NavOrder(spine) ==
    (IF spine # <<>> /\ spine[1].content = "dedication" THEN <<DEDICATION_XHTML>> ELSE <<>>)
    \o [i \in 1..BodyCount(spine) |-> ChapterPath(Digits(i))]

\* C14: the navMap of create_toc_ncx starts with the title page and ends
\* with the colophon for every list of Matter values, the empty one
\* included, and no entry between them is a title page or a colophon; for a
\* spine, the entries between them are the dedication, if the spine has
\* one, then chapter 1 .. N.
C14_NavMapOrder ==
    (pc = "pages" /\ work.toc_ncx # <<>>) =>
        LET nav == work.toc_ncx[1].refs
        IN /\ Len(nav) >= 2
           /\ nav[1].href = TITLEPAGE_XHTML /\ nav[1].title = TITLE_PAGE_TITLE
           /\ nav[Len(nav)].href = COLOPHON_XHTML /\ nav[Len(nav)].title = COLOPHON_TITLE
           /\ \A i \in 2..(Len(nav) - 1) : nav[i].href \notin {TITLEPAGE_XHTML, COLOPHON_XHTML}
           /\ IsSpine(work.spine) => HrefsOf(NavContent(work.toc_ncx)) = NavOrder(work.spine)

\* toc.ncx made from a dedication and two chapters
C14_Witness ==
    /\ pc = "pages"
    /\ work.toc_ncx # <<>>
    /\ IsSpine(work.spine)
    /\ Len(work.spine) = 3
    /\ work.spine[1].content = "dedication"
    /\ Len(work.toc_ncx[1].refs) = 5

----------------------------------------------------------------------------
(* C15 *)

\* build() is about to hand its spine to the generators
SpineHandedOver == pc \in {"content.opf", "toc.ncx", "toc.xhtml"}

\* C15: the spine build() hands to create_content_opf, create_toc_ncx and
\* create_toc_xhtml holds at most one dedication; when the dedication is
\* set in memory or is a file of the work directory it is the first entry;
\* every other entry is a body chapter, in the order of CHAPTERS.
C15_SpineShape ==
    SpineHandedOver =>
        LET off == IF work.dedication # "none" THEN 1 ELSE 0
        IN /\ Cardinality({i \in 1..Len(work.spine) : work.spine[i].content = "dedication"}) = off
           /\ off = 1 => work.spine[1] = Matter("frontmatter", "dedication", DEDICATION_TITLE)
           /\ Len(work.spine) = off + Len(work.CHAPTERS)
           /\ \A i \in 1..Len(work.CHAPTERS) :
                 work.spine[off + i] =
                     Matter("bodymatter", "none", ReadName(orig.dir, work.CHAPTERS[i])[1].title)

\* a dedication and three chapters at the hand-over
C15_Witness ==
    /\ pc = "content.opf"
    /\ work.dedication = "file"
    /\ Len(work.CHAPTERS) = 3
    /\ Len(work.spine) = 4

----------------------------------------------------------------------------
(* C16 *)

\* the triples the data model allows: a titled chapter, or a partition with
\* a content tag of its own kind
AllowedMatter(m) ==
    \/ m.partition = "bodymatter" /\ m.content = "none" /\ m.title # 0
    \/ m.partition = "frontmatter" /\ m.content \in FrontMatter
    \/ m.partition = "backmatter" /\ m.content \in BackMatter
    \/ m.partition = "bodymatter" /\ m.content \in BodyMatter

\* C16: Matter(partition, content, title) is constructed exactly when the
\* triple is allowed: every value constructed is allowed, and a construction
\* that is rejected raises a validation error and is of a triple that is
\* not allowed.
C16_MatterValidation ==
    /\ \A i \in 1..Len(work.spine) : AllowedMatter(work.spine[i])
    /\ pc = "rejected" =>
          /\ work.raised = "ValidationError"
          /\ ~AllowedMatter(work.rejected[1])

\* a chapter without a title was rejected after a chapter with one was made
C16_Witness ==
    /\ pc = "rejected"
    /\ work.rejected = <<Matter("bodymatter", "none", 0)>>
    /\ work.spine = <<Matter("bodymatter", "none", 101)>>

----------------------------------------------------------------------------
(* C17 *)

\* the tokens of the section of a chapter of the archive build() started from
TokensOf(chapter) == ReadName(orig.dir, chapter)[1].words

RECURSIVE SumTokens(_)
SumTokens(chapters) ==
    IF chapters = {} THEN 0
    ELSE LET c == CHOOSE x \in chapters : TRUE
         IN TokensOf(c) + SumTokens(chapters \ {c})

\* C17: after build(), metadata.word_count is the sum of the token counts
\* of the chapters of the spine, each counted once, whatever the order of
\* the chapters and whatever word_count was before build().
C17_WordCountIsSum ==
    Built =>
        /\ BodyCount(work.spine) = Len(work.CHAPTERS)
        /\ Cardinality(Elems(work.CHAPTERS)) = Len(work.CHAPTERS)
        /\ work.word_count = SumTokens(Elems(work.CHAPTERS))

\* build() has counted three chapters
C17_Witness ==
    /\ Built
    /\ Len(work.CHAPTERS) = 3
    /\ work.word_count = SumTokens(Elems(work.CHAPTERS))
    /\ work.word_count > 150

----------------------------------------------------------------------------
(* C18 *)

\* a dedication and the three fragments ch001, ch002, ch003, each of a
\* heading and 50 words of body
EndToEndInput ==
    /\ work.dedication # "none"
    /\ ChapterNames(orig.dir) = {FragmentPath(Pad3(i)) : i \in 1..3}
    /\ \A i \in 1..3 :
          /\ TokensOf(FragmentPath(Pad3(i))) = BodyWords(i) + HeadingWords(i)
          /\ BodyWords(i) = 50

Guarded == {"set_document", "set_cover", "add_contributor", "set_dedication",
            "set_rights", "build"}
\* the object (its fields and the files) after the i-th call
AfterCall(i) == IF i = Len(ops) THEN work ELSE ops[i + 1].before
\* a set_metadata call that returned came before the i-th call
MetadataSetBefore(i) ==
    \E j \in 1..(i - 1) : ops[j].op = "set_metadata" /\ ops[j].how = "none"
WorkCalls == pc \in {"work", "pandoc"}

\* C19, first half: a guarded operation called before any successful
\* set_metadata raises PermissionError and leaves the object and the files
\* as they were.
C19_RefusedBeforeMetadata ==
    WorkCalls =>
        \A i \in 1..Len(ops) :
            (ops[i].op \in Guarded /\ ~MetadataSetBefore(i)) =>
                /\ ops[i].how = "PermissionError"
                /\ AfterCall(i) = ops[i].before

\* C19: a guarded operation called before any successful set_metadata raises
\* PermissionError and changes neither the object nor the files, and a
\* guarded operation called after a successful set_metadata is not refused
\* with the precondition error.
C19_MetadataGatesOperations ==
    WorkCalls =>
        \A i \in 1..Len(ops) :
            ops[i].op \in Guarded =>
                IF MetadataSetBefore(i)
                THEN ops[i].how # "PermissionError"
                ELSE /\ ops[i].how = "PermissionError"
                     /\ AfterCall(i) = ops[i].before

\* C20: a set_metadata call that returns on an object that already has
\* metadata gives every field it supplies the supplied value and leaves every
\* other field at its earlier value; a call that raises changes no field.
C20_MetadataIsAdditive ==
    WorkCalls =>
        \A i \in 1..Len(ops) :
            ops[i].op = "set_metadata" =>
                IF ops[i].how # "none"
                THEN AfterCall(i).metadata = ops[i].before.metadata
                ELSE ops[i].before.metadata # None =>
                        \A f \in MetadataFields :
                            AfterCall(i).metadata[1][f] =
                                IF f \in DOMAIN ops[i].arg
                                THEN ops[i].arg[f]
                                ELSE ops[i].before.metadata[1][f]

\* a partial call without a description returned on an object whose
\* description and contributor had been set, and both are still there
C20_Witness ==
    /\ WorkCalls
    /\ \E i \in 1..Len(ops) :
          /\ ops[i].op = "set_metadata"
          /\ ops[i].how = "none"
          /\ ops[i].before.metadata # None
          /\ "description" \notin DOMAIN ops[i].arg
          /\ ops[i].before.metadata[1]["description"] # 0
          /\ AfterCall(i).metadata[1]["description"]
                 = ops[i].before.metadata[1]["description"]
          /\ AfterCall(i).metadata[1]["identifier"]
                 = ops[i].before.metadata[1]["identifier"]

----------------------------------------------------------------------------
(* C21 *)

\* the chapter fragments of the archive build() started from whose <title>
\* is empty, and the others
Untitled == {n \in ChapterNames(orig.dir) : ReadName(orig.dir, n)[1].title = 0}
Titled == ChapterNames(orig.dir) \ Untitled

\* C21: when a discovered fragment has no title, build() does not raise,
\* gives the spine one body entry for each titled fragment and none for the
\* untitled one, counts the words of the titled fragments only, and writes
\* no chapter file made from the untitled fragment.
C21_UntitledFragmentSkipped ==
    (pc = "done" /\ exc = "none" /\ work.built /\ Untitled # {}) =>
        /\ work.raised = "none"
        /\ BodyCount(work.spine) = Cardinality(Titled)
        /\ work.word_count = SumTokens(Titled)
        /\ \A n \in Untitled, i \in 1..Len(archive.dir) :
              IsChapter(archive.dir[i].name) => archive.dir[i].data[1].id # ReadName(orig.dir, n)[1].id

----------------------------------------------------------------------------
(* C22 *)

\* the remove_file calls made in the session for a path that was not in the
\* archive's name list when the call was made
AbsentDeletes == {i \in 1..Len(ops) : ops[i].op = "remove" /\ ops[i].where = "inside"
                                        /\ ~ops[i].existed}
AbsentDeleted == {ops[i].key.n : i \in AbsentDeletes}

\* C22: a delete staged for a path that is not in the archive raises
\* nothing, and after session close the archive is what it would be without
\* that delete: a path with no call keeps its original payload, and the path
\* of the delete is absent if nothing else was done to it and holds the
\* bytes of the last write if it was written as a new path.
C22_AbsentDeleteIsNoOp ==
    /\ \A i \in AbsentDeletes : ops[i].how = "staged"
    /\ (Committed /\ AllInside /\ AbsentDeletes # {}) =>
          /\ \A n \in Names :
                (CallsOn(n) = {} /\ HasName(orig.dir, n)) => Holds(n, ReadName(orig.dir, n))
          /\ \A p \in AbsentDeleted :
                LET others == CallsOn(p) \ AbsentDeletes
                IN IF others = {} THEN ~Present(p)
                   ELSE (\A j \in others : ops[j].how = "direct") =>
                            Holds(p, ops[Last(others)].data)

\* the same for the deletes of a path that nothing else is done to
C22_AbsentDeleteAloneIsNoOp ==
    /\ \A i \in AbsentDeletes : ops[i].how = "staged"
    /\ (Committed /\ AllInside /\ AbsentDeletes # {}) =>
          /\ \A n \in Names :
                (CallsOn(n) = {} /\ HasName(orig.dir, n)) => Holds(n, ReadName(orig.dir, n))
          /\ \A p \in AbsentDeleted : CallsOn(p) \subseteq AbsentDeletes => ~Present(p)

----------------------------------------------------------------------------
(* C23 *)

\* C23: on an object created with stateless=False no call of set_metadata,
\* set_document, set_cover, add_contributor, set_dedication or set_rights
\* writes a file or tries to open one for writing.
C23_MemoryWorkflowWritesNothing ==
    (WorkCalls /\ ~work.stateless) =>
        /\ work.fs.opened = {}
        /\ work.fs.files = {}

\* the same for the calls that keep what they are given in the object:
\* set_metadata, set_document, set_cover and set_dedication
C23_SourcesKeptInMemory ==
    (WorkCalls /\ ~work.stateless) =>
        \A i \in 1..Len(ops) :
            ops[i].op \in {"set_metadata", "set_document", "set_cover", "set_dedication"} =>
                AfterCall(i).fs = ops[i].before.fs

----------------------------------------------------------------------------
(* C29 *)

\* C29: a set_cover call that raises FileNotFoundError because its source
\* is not valid leaves the object as it was: metadata, its contributors
\* included, and cover are what they were before the call.
C29_FailedCoverLeavesState ==
    WorkCalls =>
        \A i \in 1..Len(ops) :
            (ops[i].op = "set_cover" /\ ~ops[i].arg[2] /\ ops[i].how = "FileNotFoundError") =>
                /\ AfterCall(i).metadata = ops[i].before.metadata
                /\ AfterCall(i).cover = ops[i].before.cover

\* the same for the calls that pass no contributor
C29_FailedCoverWithoutContributor ==
    WorkCalls =>
        \A i \in 1..Len(ops) :
            (ops[i].op = "set_cover" /\ ~ops[i].arg[2] /\ ~ops[i].arg[1]
                 /\ ops[i].how = "FileNotFoundError") =>
                AfterCall(i) = ops[i].before

----------------------------------------------------------------------------
(* C24 *)

\* the number a sequence of digits writes
RECURSIVE Value(_)
Value(d) == IF d = <<>> THEN 0 ELSE 10 * Value(SubSeq(d, 1, Len(d) - 1)) + d[Len(d)]

\* the body entries of a spine, in order
Bodies(spine) == SelectSeq(spine, LAMBDA m : m.partition = "bodymatter")

\* the fragment of the i-th smallest ordinal among the discovered ones
Nth(i) ==
    CHOOSE n \in ChapterNames(orig.dir) :
        Cardinality({x \in ChapterNames(orig.dir) : Value(x.d) < Value(n.d)}) = i - 1

\* C24: build() processes the discovered fragments in the order of the
\* numbers of their ordinal suffixes, zero-padded or not, and the i-th body
\* entry of the spine and the i-th chapter of the navMap of toc.ncx carry
\* the title of the fragment of the i-th smallest ordinal.
C24_ChaptersInNumericOrder ==
    Built =>
        /\ \A i, j \in 1..Len(work.CHAPTERS) :
              i < j => Value(work.CHAPTERS[i].d) < Value(work.CHAPTERS[j].d)
        /\ \A i \in 1..Len(work.CHAPTERS) :
              /\ Bodies(work.spine)[i].title = ReadName(orig.dir, Nth(i))[1].title
              /\ \E r \in Elems(ReadName(archive.dir, TOC_NCX)[1].refs) :
                    /\ r.href = ChapterPath(Digits(i))
                    /\ r.title = ReadName(orig.dir, Nth(i))[1].title

\* the same for the fragments named as the converter names them, with three
\* digits
C24_PaddedInNumericOrder ==
    (Built /\ \A n \in ChapterNames(orig.dir) : n.k = "EPUB/text/ch" /\ Len(n.d) = 3) =>
        /\ \A i, j \in 1..Len(work.CHAPTERS) :
              i < j => Value(work.CHAPTERS[i].d) < Value(work.CHAPTERS[j].d)
        /\ \A i \in 1..Len(work.CHAPTERS) :
              /\ Bodies(work.spine)[i].title = ReadName(orig.dir, Nth(i))[1].title
              /\ \E r \in Elems(ReadName(archive.dir, TOC_NCX)[1].refs) :
                    /\ r.href = ChapterPath(Digits(i))
                    /\ r.title = ReadName(orig.dir, Nth(i))[1].title

----------------------------------------------------------------------------
(* C25 *)

\* every row of the list get_text_rows returns fits the title page
RowsFit == ~too_wide(work.text_rows, work.font_size)

C25_ReturnedRowsFit ==
    pc = "returned" =>
        /\ RowsFit
        /\ work.text_rows # <<>>
        /\ SumSeq(work.text_rows) + Len(work.text_rows) - 1 = joined(work.word_list)

\* once rows has passed the number of words, every pass makes the one row
\* of the whole text, which is too wide, and the loop goes on
C25_LatePassesRepeat ==
    (pc = "fit" /\ work.rows > Len(work.word_list) + 1) =>
        /\ work.text_rows = <<joined(work.word_list)>>
        /\ ~RowsFit
        /\ text_rows_of(work.word_list, work.rows) = work.text_rows

\* when every word fits on a row of its own the function returns, with no
\* more rows than words
C25_TerminatesWhenWordsFit ==
    (\A i \in 1..Len(work.word_list) :
        textlength(work.word_list[i], work.font_size) <= TITLEPAGE_WIDTH)
    => work.rows <= Len(work.word_list)

----------------------------------------------------------------------------
(* C26 *)

\* the image items of the content.opf of the archive
ImageItems == ReadName(archive.dir, CONTENT_OPF)[1].images
CoverItems == {i \in 1..Len(ImageItems) : ImageItems[i].properties = "cover-image"}

\* C26: after build(), every cover written to the archive is an image item
\* of content.opf marked cover-image, no other image item is marked, at most
\* one item is marked, and every image item, the cover's included, has the
\* path of its image as href.
C26_OneCoverImage ==
    Built =>
        /\ \A i \in 1..Len(ImageItems) :
              /\ ImageItems[i].href = work.image_manifest[i]
              /\ i \in CoverItems <=> ImageItems[i].href \in Elems(work.cover)
        /\ \A c \in Elems(work.cover) : \E i \in CoverItems : ImageItems[i].href = c
        /\ Cardinality(CoverItems) <= 1

\* the same for the works with at most one cover file
C26_OneCoverImageOfOne ==
    (Built /\ Len(work.cover) <= 1) =>
        /\ \A i \in 1..Len(ImageItems) :
              /\ ImageItems[i].href = work.image_manifest[i]
              /\ i \in CoverItems <=> ImageItems[i].href \in Elems(work.cover)
        /\ \A c \in Elems(work.cover) : \E i \in CoverItems : ImageItems[i].href = c
        /\ Cardinality(CoverItems) <= 1

----------------------------------------------------------------------------
(* C27 *)

\* the body of the with block of build() has raised
BodyRaised == work.built /\ work.raised # "none"

\* C27: when the body of the session raised and an operation was staged,
\* __exit__ still runs the rebuild once the archive is closed; when the
\* rebuild succeeds the content of every buffer written before the
\* exception is in the archive, and the exception of the body is still the
\* outcome of build().
C27_ExitCommitsAfterException ==
    BodyRaised =>
        /\ (pc \in {"loop", "finally", "done"} /\ at_exit.staged # {} /\ failed # "close")
              => rebuilds = 1
        /\ Committed =>
              /\ \A i \in 1..Len(tempfiles) :
                    tempfiles[i].data # <<>> =>
                        \E j \in 1..Len(archive.dir) : archive.dir[j].data = tempfiles[i].data
              /\ work.raised # "none"

\* build() raised at an untitled chapter after it had staged the new
\* container.xml, and the session has committed it
C27_Witness ==
    /\ Committed
    /\ work.raised = "ValidationError"
    /\ rebuilds = 1
    /\ StrKey(CONTAINER_XML) \in at_exit.staged
    /\ Holds(CONTAINER_XML, File("container.xml"))
    /\ ~Holds(CONTAINER_XML, ReadName(orig.dir, CONTAINER_XML))

----------------------------------------------------------------------------
(* C28 *)

\* the session's accepted remove_file calls on archive path n, and the
\* writes to n that came after one of them while n was in the name list
DeletesOf(n) == {i \in CallsOn(n) : ops[i].op = "remove" /\ ops[i].where = "inside"}
WritesAfterDelete(n) ==
    {i \in CallsOn(n) : /\ ops[i].op = "write"
                        /\ ops[i].where = "inside"
                        /\ ops[i].existed
                        /\ \E j \in DeletesOf(n) : j < i}

\* C28: in a session, a writestr or write to a path of the archive for
\* which a delete is already staged raises; the delete is still the staged
\* operation of the path when __exit__ starts, and after commit the path is
\* absent while every path without a call holds its original payload.
C28_WriteAfterDeleteRaises ==
    AllInside =>
        \A n \in Names :
            WritesAfterDelete(n) # {} =>
                /\ \A i \in WritesAfterDelete(n) : ops[i].how \notin {"staged", "direct"}
                /\ pc \in {"rebuild", "loop", "finally", "done"} =>
                      \E t \in KeyTypes : [t |-> t, n |-> n] \in at_exit.staged
                /\ Committed =>
                      /\ ~Present(n)
                      /\ \A m \in Names :
                            (CallsOn(m) = {} /\ HasName(orig.dir, m))
                                => Holds(m, ReadName(orig.dir, m))

\* the same when the delete was staged under the path as a str
C28_WriteAfterStrDeleteRaises ==
    AllInside =>
        \A n \in Names :
            (/\ WritesAfterDelete(n) # {}
             /\ \A j \in DeletesOf(n) : ops[j].key.t = "str") =>
                /\ \A i \in WritesAfterDelete(n) : ops[i].how \notin {"staged", "direct"}
                /\ pc \in {"rebuild", "loop", "finally", "done"} =>
                      StrKey(n) \in at_exit.staged
                /\ Committed =>
                      /\ ~Present(n)
                      /\ \A m \in Names :
                            (CallsOn(m) = {} /\ HasName(orig.dir, m))
                                => Holds(m, ReadName(orig.dir, m))

----------------------------------------------------------------------------
(* C30 *)

\* C30: after replace_image(source, replace) has completed, the archive
\* holds EPUB/images/<source.name> with the bytes of the source file, also
\* when that name is the replaced one or was in the archive before, and
\* holds no EPUB/images/<replace> when replace is another name.
C30_ImageReplaced ==
    Built =>
        /\ Holds(work.source, File("source"))
        /\ work.replace # work.source => ~Present(work.replace)

\* the same for a source whose name is not the replaced one
C30_ImageReplacedByOtherName ==
    (Built /\ work.replace # work.source) =>
        /\ Holds(work.source, File("source"))
        /\ ~Present(work.replace)

====
